---- MODULE Spec2Model ----
(***************************************************************************)
(* A model of PersonTracker (src/tracker.py): the in-memory gallery        *)
(* (known_faces, known_names, person_count, last_update_time,              *)
(* person_metadata), the catalog on disk (one directory Person_<n> per     *)
(* identity, the ledger metadata.json) and the tracking loop of            *)
(* start_tracking with its teardown.                                       *)
(*                                                                         *)
(* Abstractions.  A face embedding is a point 0..MaxEmb on a line and      *)
(* face_distance is the absolute difference, so similarity_threshold and   *)
(* update_interval are small integers standing for 0.6 and 300.  The clock *)
(* counts whole seconds; time.time() and datetime.now() read the same      *)
(* clock.  A handler reads the clock before its file I/O (t0) and after it *)
(* (t1 >= t0).  A file of a directory is named by the second at which it   *)
(* was written, Person_<n>_<YYYYMMDD_HHMMSS>.jpg, and holds the embedding  *)
(* that face_encodings extracts from it, or NoFace when it extracts none.  *)
(***************************************************************************)
EXTENDS Integers, Sequences, FiniteSets, TLC

\* ---------------------------------------------------------------- bounds
MaxPersons == 2     \* person_count is capped at this many registrations
MaxEmb == 2         \* embeddings are the points 0..MaxEmb
MaxFaces == 2       \* detections per frame
MaxTime == 4        \* the clock stops advancing here
MaxEvents == 3      \* detections processed, over all runs

\* ------------------------------------------------- program configuration
update_interval == 2          \* seconds; 300 in the source
similarity_threshold == 2     \* distance units; 0.6 in the source

None == 0                     \* Python's None where an id is expected
NoFace == -1                  \* a stored image in which face_encodings finds no face
Emb == 0..MaxEmb
Ids == 1..MaxPersons
Faults == {"none", "mkdir", "ledger", "imwrite", "noface", "interrupt"}

VARIABLES
    known_faces,        \* list of reference embeddings
    known_names,        \* list of ids, parallel to known_faces
    person_count,       \* the id counter
    last_update_time,   \* id -> time
    person_metadata,    \* the ledger in memory: id -> record
    dirs,               \* catalog on disk: id -> (file timestamp -> embedding)
    ledger,             \* metadata.json on disk: id -> record
    cap,                \* TRUE while the camera is held
    pc,                 \* "off", "idle", "faces", "stopped"
    pending,            \* number of detections of the frame not yet processed
    now,                \* the clock, in seconds
    events,             \* number of detections processed so far
    exit,               \* what the last run's main returned (-1: none yet)
    issued,             \* history: the ids _register_new_person returned, in order
    lastSave,           \* history: id -> t, the time of the latest call that
                        \*   persisted its image; n, how many did in this run
    skipped,            \* history: directories the last load skipped
    cleanups,           \* history: cleanup calls entered in this run
    last                \* history: what the last step did

vars == <<known_faces, known_names, person_count, last_update_time,
          person_metadata, dirs, ledger, cap, pc, pending, now, events, exit,
          issued, lastSave, skipped, cleanups, last>>

memory == <<known_faces, known_names, person_count, last_update_time,
            person_metadata>>
disk == <<dirs, ledger>>

\* ------------------------------------------------------------- helpers
Range(s) == {s[i] : i \in 1..Len(s)}

MaxOf(S) == CHOOSE x \in S : \A y \in S : y <= x

\* Mutant: the least number, not the greatest
Min2(a, b) == IF a <= b THEN a ELSE b

\* Mutant: the number of the folder loaded last, not the greatest one
Latest2(a, b) == b

Max2(a, b) == IF a >= b THEN a ELSE b

\* d with key k bound to v (a dict assignment d[k] = v)
Put(d, k, v) == [x \in DOMAIN d \cup {k} |-> IF x = k THEN v ELSE d[x]]

\* d without key k
Drop(d, k) == [x \in DOMAIN d \ {k} |-> d[x]]

EmptyDict == [x \in {} |-> 0]

\* All orders in which os.listdir may return the members of S
Perms(S) == {s \in [1..Cardinality(S) -> S] : Range(s) = S}

\* What a step did.  op: "start", "face", "end", the stop taken ("readfail",
\* "quit", "interrupt") or "none"; for a detection, enc is its encoding,
\* pid the id it resolved to, isNew whether the id was registered for it,
\* called whether _save_person_image was called, fault the fault injected
\* in that call, wrote whether cv2.imwrite wrote the file, raised what the
\* call raised ("no", "exception", "interrupt"); for a start, pick is the
\* images[0] the load listed in each folder and again tells that the start
\* came right after another start that listed the same images[0].
NoEvent == [op |-> "none", enc |-> -1, pid |-> None, isNew |-> FALSE,
            called |-> FALSE, fault |-> "none", wrote |-> FALSE, raised |-> "no",
            pick |-> EmptyDict, again |-> FALSE]

NoSave == [t |-> -1, n |-> 0]

\* ------------------------------------------------------ identity gallery
\* face_recognition.face_distance: the distance of e to every stored face
face_distance(faces, e) ==
    [i \in 1..Len(faces) |->
        IF faces[i] >= e THEN faces[i] - e ELSE e - faces[i]]

np_min(d) == CHOOSE m \in Range(d) : \A x \in Range(d) : m <= x

\* Mutant: the last index of the minimum
np_argmin_last(d) ==
    CHOOSE i \in 1..Len(d) :
        /\ d[i] = np_min(d)
        /\ \A j \in (i + 1)..Len(d) : d[j] # np_min(d)

\* numpy.argmin returns the first index of the minimum
np_argmin(d) ==
    CHOOSE i \in 1..Len(d) :
        /\ d[i] = np_min(d)
        /\ \A j \in 1..(i - 1) : d[j] # np_min(d)

\* Mutant: the threshold test admits a distance equal to the threshold
_identify_person_le(faces, names, e) ==
    IF faces = <<>> THEN None
    ELSE LET distances == face_distance(faces, e)
         IN  IF np_min(distances) <= similarity_threshold
             THEN names[np_argmin(distances)]
             ELSE None

_identify_person(faces, names, e) ==
    IF faces = <<>> THEN None
    ELSE LET distances == face_distance(faces, e)
             min_distance == np_min(distances)
         IN  IF min_distance < similarity_threshold
             THEN names[np_argmin(distances)]
             ELSE None

\* Mutant: the new pair goes to the front of the gallery
_register_new_person_front(g, e, t) ==
    [faces |-> <<e>> \o g.faces,
     names |-> <<g.count + 1>> \o g.names,
     count |-> g.count + 1,
     lut   |-> Put(g.lut, g.count + 1, t)]

\* Mutant: the new identity's last_update_time is 0, as for a loaded one
_register_new_person_epoch(g, e, t) ==
    [faces |-> Append(g.faces, e),
     names |-> Append(g.names, g.count + 1),
     count |-> g.count + 1,
     lut   |-> Put(g.lut, g.count + 1, 0)]

\* g is the gallery [faces, names, count, lut]; the new id is g'.count
_register_new_person(g, e, t) ==
    LET person_id == g.count + 1
    IN  [faces |-> Append(g.faces, e),
         names |-> Append(g.names, person_id),
         count |-> person_id,
         lut   |-> Put(g.lut, person_id, t)]

\* Mutant: the interval must be exceeded, not reached
_should_update_person_gt(lut, person_id, current_time) ==
    LET last_update == IF person_id \in DOMAIN lut THEN lut[person_id] ELSE 0
    IN  (current_time - last_update) > update_interval

_should_update_person(lut, person_id, current_time) ==
    LET last_update == IF person_id \in DOMAIN lut THEN lut[person_id] ELSE 0
    IN  (current_time - last_update) >= update_interval

\* Mutant: the throttle is asked for a newly registered identity too
should_capture_throttled(isNew, lut, person_id, current_time) ==
    _should_update_person(lut, person_id, current_time)

\* The branch of start_tracking on a resolved detection: a newly registered
\* identity is saved at once, a known one when its interval has elapsed
should_capture(isNew, lut, person_id, current_time) ==
    isNew \/ _should_update_person(lut, person_id, current_time)

\* --------------------------------------------------------- catalog store
\* json.dump of the in-memory ledger: the new content of metadata.json
_save_metadata(pm) == pm

\* s is the store [dirs, pm, ledger]; the result adds raised
_create_person_folder(s, person_id, t, fault) ==
    IF fault = "mkdir"
    THEN [dirs |-> s.dirs, pm |-> s.pm, ledger |-> s.ledger, raised |-> "exception"]
    ELSE LET dirs1 == IF person_id \in DOMAIN s.dirs THEN s.dirs
                      ELSE Put(s.dirs, person_id, EmptyDict)
             pm1 == Put(s.pm, person_id,
                        [created |-> t, total_images |-> 0, last_seen |-> t])
         IN  IF fault = "ledger"
             THEN [dirs |-> dirs1, pm |-> pm1, ledger |-> s.ledger,
                   raised |-> "exception"]
             ELSE [dirs |-> dirs1, pm |-> pm1, ledger |-> _save_metadata(pm1),
                   raised |-> "no"]

\* cv2.imwrite of the file named by second ts into person_id's directory;
\* it returns False without raising when the write fails.  The crop it
\* writes may be one in which face_encodings later finds no face.
imwrite(ds, person_id, ts, e, fault) ==
    IF fault = "imwrite" THEN ds
    ELSE Put(ds, person_id,
             Put(ds[person_id], ts, IF fault = "noface" THEN NoFace ELSE e))

\* The result is [dirs, pm, ledger, raised, wrote]; t0 is the clock when the
\* file name is made, t1 the clock when the ledger record is updated.
_save_person_image(s, person_id, e, t0, t1, fault) ==
    LET c == IF person_id \notin DOMAIN s.dirs
             THEN _create_person_folder(s, person_id, t0, fault)
             ELSE [dirs |-> s.dirs, pm |-> s.pm, ledger |-> s.ledger,
                   raised |-> "no"]
    IN  IF c.raised # "no"
        THEN [dirs |-> c.dirs, pm |-> c.pm, ledger |-> c.ledger,
              raised |-> c.raised, wrote |-> FALSE]
        ELSE
        LET dirs2 == imwrite(c.dirs, person_id, t0, e, fault)
            wrote == fault # "imwrite"
            pm3 == IF person_id \in DOMAIN c.pm
                   THEN Put(c.pm, person_id,
                            [created |-> c.pm[person_id].created,
                             total_images |-> c.pm[person_id].total_images + 1,
                             last_seen |-> t1])
                   ELSE c.pm
        IN  IF fault = "interrupt"
            THEN [dirs |-> dirs2, pm |-> c.pm, ledger |-> c.ledger,
                  raised |-> "interrupt", wrote |-> wrote]
            ELSE IF person_id \notin DOMAIN c.pm
            THEN [dirs |-> dirs2, pm |-> c.pm, ledger |-> c.ledger,
                  raised |-> "no", wrote |-> wrote]
            ELSE IF fault = "ledger"
            THEN [dirs |-> dirs2, pm |-> pm3, ledger |-> c.ledger,
                  raised |-> "exception", wrote |-> wrote]
            ELSE [dirs |-> dirs2, pm |-> pm3, ledger |-> _save_metadata(pm3),
                  raised |-> "no", wrote |-> wrote]

RECURSIVE LoadFolders(_, _, _, _)

\* Mutant: the load ends at the first folder it skips
LoadFolders_abort(ds, order, pick, g) ==
    IF order = <<>> THEN g
    ELSE LET person_id == Head(order)
         IN  IF DOMAIN ds[person_id] = {} \/ ds[person_id][pick[person_id]] = NoFace
             THEN [g EXCEPT !.skipped = @ \cup {person_id}]
             ELSE LoadFolders(ds, Tail(order), pick,
                      [faces |-> Append(g.faces, ds[person_id][pick[person_id]]),
                       names |-> Append(g.names, person_id),
                       count |-> Max2(g.count, person_id),
                       lut   |-> Put(g.lut, person_id, 0),
                       skipped |-> g.skipped])

\* The folders of order, in turn: a folder whose first listed image has
\* an embedding contributes it; g is [faces, names, count, lut, skipped]
LoadFolders(ds, order, pick, g) ==
    IF order = <<>> THEN g
    ELSE LET person_id == Head(order)
             images == DOMAIN ds[person_id]
             g1 == IF images = {} \/ ds[person_id][pick[person_id]] = NoFace
                   THEN [g EXCEPT !.skipped = @ \cup {person_id}]
                   ELSE [faces |-> Append(g.faces, ds[person_id][pick[person_id]]),
                         names |-> Append(g.names, person_id),
                         count |-> Max2(g.count, person_id),
                         lut   |-> Put(g.lut, person_id, 0),
                         skipped |-> g.skipped]
         IN  LoadFolders(ds, Tail(order), pick, g1)

\* Mutant: the loop over the folders ends after the first one
_load_first_folder(ds, order, pick) ==
    LoadFolders(ds, IF order = <<>> THEN order ELSE <<Head(order)>>, pick,
                [faces |-> <<>>, names |-> <<>>, count |-> 0,
                 lut |-> EmptyDict, skipped |-> {}])

_load_existing_database(ds, order, pick) ==
    LoadFolders(ds, order, pick,
                [faces |-> <<>>, names |-> <<>>, count |-> 0,
                 lut |-> EmptyDict, skipped |-> {}])

\* The choices of images[0], one per folder that holds an image
Picks(ds) ==
    LET full == {p \in DOMAIN ds : DOMAIN ds[p] # {}}
    IN  {f \in [full -> 0..MaxTime] : \A p \in full : f[p] \in DOMAIN ds[p]}

\* --------------------------------------------------------- tracking loop
\* A fault can be injected only where the call it breaks is made
Applicable(fault, person_id) ==
    CASE fault = "mkdir"  -> person_id \notin DOMAIN dirs
      [] fault = "ledger" -> person_id \notin DOMAIN dirs
                             \/ person_id \in DOMAIN person_metadata
      [] OTHER -> TRUE

\* Mutant: cleanup releases the camera and does not flush the ledger
cleanup_noflush(pm, led, flushOk) ==
    /\ cap' = FALSE
    /\ cleanups' = cleanups + 1
    /\ ledger' = led
    /\ exit' = IF flushOk THEN 0 ELSE 1
    /\ pc' = "stopped"
    /\ pending' = 0

\* cleanup, from the finally of start_tracking: the camera is released,
\* then the ledger pm is flushed over the file content led; when the flush
\* raises, start_tracking raises and main returns 1
cleanup(pm, led, flushOk) ==
    /\ cap' = FALSE
    /\ cleanups' = cleanups + 1
    /\ ledger' = IF flushOk THEN _save_metadata(pm) ELSE led
    /\ exit' = IF flushOk THEN 0 ELSE 1
    /\ pc' = "stopped"
    /\ pending' = 0

Init ==
    /\ known_faces = <<>>
    /\ known_names = <<>>
    /\ person_count = 0
    /\ last_update_time = EmptyDict
    /\ person_metadata = EmptyDict
    /\ dirs = EmptyDict
    /\ ledger = EmptyDict
    /\ cap = FALSE
    /\ pc = "off"
    /\ pending = 0
    /\ now = update_interval
    /\ events = 0
    /\ exit = -1
    /\ issued = <<>>
    /\ lastSave = [p \in Ids |-> NoSave]
    /\ skipped = {}
    /\ cleanups = 0
    /\ last = NoEvent

\* main: PersonTracker(**config), then start_tracking up to the loop's top
Start(order, pick, camOk) ==
    /\ LET g == _load_existing_database(dirs, order, pick)
       IN  /\ known_faces' = g.faces
           /\ known_names' = g.names
           /\ person_count' = g.count
           /\ last_update_time' = g.lut
           /\ skipped' = g.skipped
    /\ person_metadata' = ledger
    /\ cleanups' = 0
    /\ cap' = camOk
    /\ pc' = IF camOk THEN "idle" ELSE "stopped"
    /\ exit' = IF camOk THEN -1 ELSE 1
    /\ pending' = 0
    /\ last' = [NoEvent EXCEPT !.op = "start",
                               !.raised = IF camOk THEN "no" ELSE "exception",
                               !.pick = pick,
                               !.again = (last.op = "start" /\ last.pick = pick)]
    /\ lastSave' = [p \in Ids |-> [lastSave[p] EXCEPT !.n = 0]]
    /\ UNCHANGED <<dirs, ledger, now, events, issued>>

\* self.cap.read() returns a frame in which _detect_faces finds n faces
ReadFrame(n) ==
    /\ pc = "idle"
    /\ events + n <= MaxEvents
    /\ pending' = n
    /\ pc' = "faces"
    /\ last' = NoEvent
    /\ UNCHANGED <<memory, disk, cap, cleanups, exit, now, events, issued,
                   lastSave, skipped>>

\* Mutant: a failed read is logged and the loop goes on to read again
ReadFail_retry(flushOk) ==
    /\ pc = "idle"
    /\ last' = [NoEvent EXCEPT !.op = "readfail"]
    /\ UNCHANGED <<memory, disk, cap, pc, pending, now, events, exit, issued,
                   lastSave, skipped, cleanups>>

\* self.cap.read() returns ret = False: break, then the finally
ReadFail(flushOk) ==
    /\ pc = "idle"
    /\ cleanup(person_metadata, ledger, flushOk)
    /\ last' = [NoEvent EXCEPT !.op = "readfail"]
    /\ UNCHANGED <<memory, dirs, now, events, issued, lastSave, skipped>>

\* One pass of the for loop of start_tracking, over a detection whose
\* encoding is face_encoding
ProcessFace(face_encoding, fault, d, flushOk) ==
    /\ pc = "faces"
    /\ pending > 0
    /\ now + d <= MaxTime
    /\ LET t0 == now
           t1 == now + d
           found == _identify_person(known_faces, known_names, face_encoding)
           isNew == found = None
           g0 == [faces |-> known_faces, names |-> known_names,
                  count |-> person_count, lut |-> last_update_time]
           g1 == IF isNew THEN _register_new_person(g0, face_encoding, t0) ELSE g0
           person_id == IF isNew THEN g1.count ELSE found
           called == should_capture(isNew, g1.lut, person_id, t0)
           s0 == [dirs |-> dirs, pm |-> person_metadata, ledger |-> ledger]
           r == IF called
                THEN _save_person_image(s0, person_id, face_encoding, t0, t1, fault)
                ELSE [dirs |-> dirs, pm |-> person_metadata, ledger |-> ledger,
                      raised |-> "no", wrote |-> FALSE]
           lut2 == IF ~isNew /\ called /\ r.raised = "no"
                   THEN Put(g1.lut, person_id, t1)
                   ELSE g1.lut
       IN  /\ isNew => person_count < MaxPersons
           /\ IF called THEN Applicable(fault, person_id)
                        ELSE fault = "none" /\ d = 0
           /\ known_faces' = g1.faces
           /\ known_names' = g1.names
           /\ person_count' = g1.count
           /\ last_update_time' = lut2
           /\ person_metadata' = r.pm
           /\ dirs' = r.dirs
           /\ now' = t1
           /\ issued' = IF isNew THEN Append(issued, person_id) ELSE issued
           /\ lastSave' = IF r.wrote
                          THEN [lastSave EXCEPT ![person_id] = [t |-> t0, n |-> @.n + 1]]
                          ELSE lastSave
           /\ IF r.raised = "no"
              THEN /\ flushOk
                   /\ pending' = pending - 1
                   /\ ledger' = r.ledger
                   /\ UNCHANGED <<cap, cleanups, exit, pc>>
              ELSE cleanup(r.pm, r.ledger, flushOk)
           /\ last' = [op |-> "face", enc |-> face_encoding, pid |-> person_id,
                       isNew |-> isNew, called |-> called, fault |-> fault,
                       wrote |-> r.wrote, raised |-> r.raised,
                       pick |-> EmptyDict, again |-> FALSE]
    /\ events' = events + 1
    /\ UNCHANGED skipped

\* The end of a pass of the while loop: the preview, no quit key, the sleep
EndCycle ==
    /\ pc = "faces"
    /\ pending = 0
    /\ pc' = "idle"
    /\ last' = [NoEvent EXCEPT !.op = "end"]
    /\ UNCHANGED <<memory, disk, cap, cleanups, exit, pending, now, events,
                   issued, lastSave, skipped>>

\* cv2.waitKey returns 'q' at the end of a pass: break, then the finally
Quit(flushOk) ==
    /\ pc = "faces"
    /\ pending = 0
    /\ cleanup(person_metadata, ledger, flushOk)
    /\ last' = [NoEvent EXCEPT !.op = "quit"]
    /\ UNCHANGED <<memory, dirs, now, events, issued, lastSave, skipped>>

\* KeyboardInterrupt between two detections or between two cycles
Interrupt(flushOk) ==
    /\ pc \in {"idle", "faces"}
    /\ cleanup(person_metadata, ledger, flushOk)
    /\ last' = [NoEvent EXCEPT !.op = "interrupt", !.raised = "interrupt"]
    /\ UNCHANGED <<memory, dirs, now, events, issued, lastSave, skipped>>

\* A second passes between two cycles.  While the process is down nothing
\* reads the clock (the load sets every last_update_time to 0), so a second
\* that passes then is one that passes at the top of the next run's loop.
Tick ==
    /\ pc = "idle"
    /\ now < MaxTime
    /\ now' = now + 1
    /\ last' = NoEvent
    /\ UNCHANGED <<memory, disk, cap, pc, pending, events, exit, issued, lastSave,
                   skipped, cleanups>>

\* While the process is down, someone deletes a directory that is not the
\* one of the highest id; its ledger record stays
ExternalDelete(p) ==
    /\ pc \in {"off", "stopped"}
    /\ p \in DOMAIN dirs
    /\ p < MaxOf(DOMAIN dirs)
    /\ dirs' = Drop(dirs, p)
    /\ last' = NoEvent
    /\ UNCHANGED <<memory, ledger, cap, pc, pending, now, events, exit, issued,
                   lastSave, skipped, cleanups>>

Restart ==
    /\ pc \in {"off", "stopped"}
    /\ \E order \in Perms(DOMAIN dirs), pick \in Picks(dirs), camOk \in BOOLEAN :
          Start(order, pick, camOk)

Face ==
    /\ pc = "faces"
    /\ pending > 0
    /\ \E e \in Emb, fault \in Faults, d \in 0..1, flushOk \in BOOLEAN :
          ProcessFace(e, fault, d, flushOk)

Next ==
    \/ Restart
    \/ \E n \in 0..MaxFaces : ReadFrame(n)
    \/ \E flushOk \in BOOLEAN : ReadFail(flushOk)
    \/ Face
    \/ EndCycle
    \/ \E flushOk \in BOOLEAN : Quit(flushOk)
    \/ \E flushOk \in BOOLEAN : Interrupt(flushOk)
    \/ Tick
    \/ \E p \in Ids : ExternalDelete(p)

Spec == Init /\ [][Next]_vars

\* ------------------------------------------------------------- claims
FaceStep == last'.op = "face" /\ events' = events + 1

Dist(a, b) == IF a >= b THEN a - b ELSE b - a

FileCount(ds, p) == IF p \in DOMAIN ds THEN Cardinality(DOMAIN ds[p]) ELSE 0

\* The reference embedding the gallery holds for id p
EmbOf(faces, names, p) == faces[CHOOSE i \in 1..Len(names) : names[i] = p]

SameGallery(faces1, names1, count1, faces2, names2, count2) ==
    /\ Range(names1) = Range(names2)
    /\ \A p \in Range(names1) :
          EmbOf(faces1, names1, p) = EmbOf(faces2, names2, p)
    /\ count1 = count2

\* C1: the ids returned by _register_new_person, over all runs, are
\* strictly increasing in the order they were returned (so none is
\* returned twice).
C1_IdsStrictlyIncreasing ==
    \A i, j \in 1..Len(issued) : i < j => issued[i] < issued[j]

\* C2: any two persisted images of one identity are at least
\* update_interval apart, restarts included: a call that persists an image
\* comes update_interval or more after the latest earlier one for that id.
C2_ThrottleAcrossRestarts ==
    [][(FaceStep /\ last'.wrote /\ lastSave[last'.pid].t >= 0)
        => now - lastSave[last'.pid].t >= update_interval]_vars

\* C2, amended: within one run, a call that persists an image of an
\* identity comes update_interval or more after the latest earlier call of
\* that run that persisted one for it.
C2_ThrottleWithinRun ==
    [][(FaceStep /\ last'.wrote /\ lastSave[last'.pid].n >= 1)
        => now - lastSave[last'.pid].t >= update_interval]_vars

\* C2 witness: an identity has had two images persisted in one run.
C2_Witness ==
    /\ last.op = "face"
    /\ last.wrote
    /\ lastSave[last.pid].n = 2

\* C3: for a detection resolved to a known identity, whose save meets no
\* I/O fault, an image is persisted iff now - last_update_time >=
\* update_interval; after a capture last_update_time is the clock read
\* when the save has returned, and without one it and the catalog are
\* unchanged.
C3_ThrottleDecision ==
    [][(FaceStep /\ ~last'.isNew /\ last'.fault = "none")
        => LET p == last'.pid
               elapsed == now - (IF p \in DOMAIN last_update_time
                                 THEN last_update_time[p] ELSE 0)
           IN  /\ last'.wrote <=> elapsed >= update_interval
               /\ last'.wrote => /\ last_update_time'[p] = now'
                                 /\ now \in DOMAIN dirs'[p]
               /\ ~last'.wrote => UNCHANGED <<last_update_time, dirs>>]_vars

\* C3 witness: a known identity is captured when exactly update_interval
\* has elapsed: the clock starts at update_interval, so two persistences of
\* one run, the second at 2 * update_interval, are exactly that far apart.
C3_Witness ==
    /\ last.op = "face"
    /\ ~last.isNew
    /\ last.wrote
    /\ last.fault = "none"
    /\ lastSave[last.pid].n = 2
    /\ lastSave[last.pid].t = 2 * update_interval

\* C4: a detection resolves to a known identity iff the gallery is not
\* empty and some stored face is at a distance strictly below
\* similarity_threshold; then the gallery is unchanged.  Otherwise exactly
\* one identity is registered for it and returned; an empty gallery
\* raises nothing.
C4_Resolution ==
    [][FaceStep
        => LET e == last'.enc
               near == \E i \in 1..Len(known_faces) :
                          Dist(known_faces[i], e) < similarity_threshold
           IN  /\ ~last'.isNew <=> (known_faces # <<>> /\ near)
               /\ ~last'.isNew =>
                     /\ last'.pid \in Range(known_names)
                     /\ UNCHANGED <<known_faces, known_names, person_count, issued>>
               /\ last'.isNew =>
                     /\ last'.pid \notin Range(known_names)
                     /\ known_names' = Append(known_names, last'.pid)
                     /\ known_faces' = Append(known_faces, e)
                     /\ issued' = Append(issued, last'.pid)
               /\ (known_faces = <<>> /\ last'.fault = "none")
                     => last'.raised = "no"]_vars

\* C4 witness: a detection at a distance of exactly similarity_threshold
\* from the only stored face was registered as a second identity.
C4_Witness ==
    /\ last.op = "face"
    /\ last.isNew
    /\ Len(known_faces) = 2
    /\ known_faces[2] = last.enc
    /\ Dist(known_faces[1], known_faces[2]) = similarity_threshold

\* C5: after a detection resolved to a newly registered identity, whose
\* save met no I/O fault, an image of it taken from that detection is in
\* its directory, written by this run, before the next detection.
C5_NewIdentityImmediate ==
    (last.op = "face" /\ last.isNew /\ last.fault = "none")
        => /\ last.called
           /\ last.wrote
           /\ last.pid \in DOMAIN dirs
           /\ \E ts \in DOMAIN dirs[last.pid] : dirs[last.pid][ts] = last.enc
           /\ lastSave[last.pid].n >= 1
           /\ pc = "faces"

\* C5 witness: a new identity has its image while another detection of
\* the same frame is still to be processed.
C5_Witness ==
    /\ last.op = "face"
    /\ last.isNew
    /\ last.fault = "none"
    /\ last.wrote
    /\ pending > 0

\* C6: an I/O failure while an image or the ledger is persisted does not
\* end the loop: the cycle goes on and the identity is in the gallery.
C6_LoopSurvivesPersistenceFailure ==
    (last.op = "face" /\ last.fault \in {"mkdir", "ledger", "imwrite"})
        => /\ pc = "faces"
           /\ last.pid \in Range(known_names)

\* C7: whatever stopped the loop, cleanup has run exactly once and to its
\* end when start_tracking is over: the camera is released, the ledger on
\* disk is the ledger in memory and start_tracking has returned.
C7_TeardownCompletes ==
    (pc = "stopped" /\ last.op \in {"readfail", "quit", "interrupt", "face"})
        => /\ cleanups = 1
           /\ cap = FALSE
           /\ ledger = person_metadata
           /\ exit = 0

\* C8: after every completed cycle the identities of the gallery are the
\* directories of the catalog.
C8_GalleryEqualsCatalog ==
    last.op = "end" => Range(known_names) = DOMAIN dirs

\* C8, amended: after every completed cycle every identity of the gallery
\* has a directory, and the directories without a gallery entry are among
\* those this run's load skipped: it listed no image in them, or a first
\* image without an embedding.
C8_GalleryMatchesLoadedCatalog ==
    last.op = "end"
        => /\ Range(known_names) \subseteq DOMAIN dirs
           /\ (DOMAIN dirs \ Range(known_names)) \subseteq skipped

\* C8 witness: a cycle completes in a run that loaded one identity and
\* skipped another directory.
C8_Witness ==
    /\ last.op = "end"
    /\ known_names # <<>>
    /\ (DOMAIN dirs \ Range(known_names)) # {}

\* C9: after a successful persistence the ledger holds the identity's
\* record, with at least this image counted and last_seen the time of the
\* persistence.
C9_LedgerRecordAfterPersistence ==
    (last.op = "face" /\ last.wrote /\ last.raised = "no")
        => /\ last.pid \in DOMAIN person_metadata
           /\ person_metadata[last.pid].total_images >= 1
           /\ person_metadata[last.pid].last_seen = now

\* C10: every image written adds a file to the identity's directory: none
\* replaces an earlier one.
C10_NoOverwrite ==
    [][(FaceStep /\ last'.wrote)
        => FileCount(dirs', last'.pid) = FileCount(dirs, last'.pid) + 1]_vars

\* C11: two loads in succession, with no write between them (so that
\* os.listdir lists the same first image in every folder both times, the
\* folders in any order), each into an empty gallery, give the same set of
\* ids, the same reference embedding for each id and the same person_count.
C11_ReloadIdempotent ==
    [][(last.op = "start" /\ last'.op = "start" /\ last'.pick = last.pick)
        => SameGallery(known_faces, known_names, person_count,
                       known_faces', known_names', person_count')]_vars

\* C11 witness: a second load in succession, listing the same first
\* images, over a catalog in which a loaded identity's folder holds two
\* images of different content.
C11_Witness ==
    /\ last.op = "start"
    /\ last.again
    /\ \E p \in Range(known_names) :
          \E t1, t2 \in DOMAIN dirs[p] : dirs[p][t1] # dirs[p][t2]

\* C12: a stop signal is observed between cycles only, so when the loop
\* has stopped no capture is half-applied: a detection whose image file
\* was written before the loop stopped on a KeyboardInterrupt also has
\* its ledger record incremented and, for a known identity, its
\* last_update_time set to the clock read after the save.
C12_NoHalfAppliedCapture ==
    [][(FaceStep /\ pc' = "stopped" /\ last'.raised = "interrupt" /\ last'.wrote)
        => LET p == last'.pid
               before == IF p \in DOMAIN person_metadata
                         THEN person_metadata[p].total_images ELSE 0
           IN  /\ p \in DOMAIN person_metadata'
               /\ person_metadata'[p].total_images = before + 1
               /\ ~last'.isNew => last_update_time'[p] = now']_vars

\* C13: the id _register_new_person returns is greater than the number of
\* every Person_<n> directory on disk, the directories the load skipped
\* included, so a new identity never takes the name of an existing
\* directory.
C13_NewIdAboveEveryDirectory ==
    [][(FaceStep /\ last'.isNew)
        => \A p \in DOMAIN dirs : last'.pid > p]_vars

C15_OnlySetupFailureExitsNonZero ==
    (pc = "stopped" /\ last.op # "none")
        => IF last.op = "start" THEN exit = 1 ELSE exit = 0

\* C16: within a run the gallery only grows at its end: every step other
\* than a start keeps each stored (embedding, id) pair at its index, and a
\* detection resolved to a known identity, captured or not, leaves
\* known_faces and known_names as they were.
C16_ReferenceEmbeddingFrozen ==
    [][last'.op # "start"
        => /\ Len(known_faces') >= Len(known_faces)
           /\ Len(known_faces') <= Len(known_faces) + 1
           /\ Len(known_names') = Len(known_faces')
           /\ \A i \in 1..Len(known_faces) :
                 /\ known_faces'[i] = known_faces[i]
                 /\ known_names'[i] = known_names[i]
           /\ (FaceStep /\ ~last'.isNew)
                 => UNCHANGED <<known_faces, known_names>>]_vars

\* C16 witness: an image was captured for a known identity from a
\* detection whose encoding is not its reference embedding, in a gallery
\* of two.
C16_Witness ==
    /\ last.op = "face"
    /\ ~last.isNew
    /\ last.wrote
    /\ Len(known_names) = 2
    /\ last.enc # EmbOf(known_faces, known_names, last.pid)

\* C17: a detection that matches resolves to the identity at the first
\* gallery index whose stored embedding is at the minimum distance from
\* it: no stored embedding is nearer, and none before it is as near.
C17_NearestFirstWins ==
    [][(FaceStep /\ ~last'.isNew)
        => \E i \in 1..Len(known_faces) :
              /\ known_names[i] = last'.pid
              /\ \A j \in 1..Len(known_faces) :
                    Dist(known_faces[j], last'.enc)
                        >= Dist(known_faces[i], last'.enc)
              /\ \A j \in 1..(i - 1) :
                    Dist(known_faces[j], last'.enc)
                        > Dist(known_faces[i], last'.enc)]_vars

\* C17 witness: a detection at the same distance, below the threshold,
\* from both stored embeddings has matched.
C17_Witness ==
    /\ last.op = "face"
    /\ ~last.isNew
    /\ Len(known_faces) = 2
    /\ Dist(known_faces[1], last.enc) = Dist(known_faces[2], last.enc)
    /\ Dist(known_faces[1], last.enc) < similarity_threshold

\* C18: a failed frame read takes the loop straight to the teardown,
\* with the gallery, the image folders and the counts of detections as
\* they were; and once a run has stopped, nothing more is read, resolved,
\* registered or persisted until the process is started again.
C18_ReadFailureNotRetried ==
    [][/\ last'.op = "readfail"
            => /\ pc' = "stopped"
               /\ cleanups' = 1
               /\ cap' = FALSE
               /\ UNCHANGED <<memory, dirs, events, issued, lastSave>>
       /\ pc = "stopped"
            => \/ last'.op = "start"
               \/ /\ pc' = "stopped"
                  /\ UNCHANGED <<memory, ledger, events, issued, lastSave,
                                 pending, cap, cleanups>>]_vars

\* C18 witness: a frame read has failed in a run that had resolved
\* detections and holds an identity.
C18_Witness ==
    /\ last.op = "readfail"
    /\ pc = "stopped"
    /\ events > 0
    /\ known_names # <<>>

\* C19: the content of metadata.json is the in-memory ledger
\* (person_metadata) between detections, at every cycle boundary, and
\* after a teardown whose final write of the file succeeded.
C19_LedgerFileEqualsMemory ==
    (\/ pc \in {"idle", "faces"}
     \/ (pc = "stopped" /\ cleanups = 1 /\ exit = 0))
        => ledger = person_metadata

\* C19 witness: a write of the ledger failed in a cycle, after the record
\* was changed in memory, and the teardown has written the file.
C19_Witness ==
    /\ pc = "stopped"
    /\ exit = 0
    /\ last.op = "face"
    /\ last.fault = "ledger"
    /\ last.pid \in DOMAIN person_metadata

\* C20: in every state the gallery is well formed: known_faces and
\* known_names have the same length, no id occurs twice in known_names,
\* every id of known_names has an entry in last_update_time, and
\* person_count is at least every id of known_names.
C20_GalleryWellFormed ==
    /\ Len(known_faces) = Len(known_names)
    /\ \A i, j \in 1..Len(known_names) :
          known_names[i] = known_names[j] => i = j
    /\ \A i \in 1..Len(known_names) :
          /\ known_names[i] \in DOMAIN last_update_time
          /\ person_count >= known_names[i]

\* C20 witness: the gallery holds an identity loaded from the catalog
\* (its image is from an earlier run) and, after it, one registered in
\* this run.
C20_Witness ==
    /\ last.op = "face"
    /\ last.isNew
    /\ Len(known_names) = 2
    /\ known_names[2] = last.pid
    /\ lastSave[known_names[1]].n = 0
    /\ lastSave[known_names[1]].t >= 0

====
